---- MODULE Spec2Model ----
(***************************************************************************)
(* Krishi-Sakha chat backend: the /chat request handler (routes/chat.py),  *)
(* the model runner generators (brain/model_run.py) and the persistence    *)
(* helper (routes/helpers/push_supabase.py), as one request's state        *)
(* machine.  A step is one resumption of the event_stream generator, split *)
(* at the awaits on the language model.                                    *)
(***************************************************************************)
EXTENDS Integers, Sequences, FiniteSets, TLC

VARIABLES
    hasImage,        \* image_bytes is truthy (chat.py:41-44, 51)
    prompt,          \* the prompt form field
    supabaseReady,   \* the module-level supabase client is set (push_supabase.py:9)
    chromaAvailable, \* CHROMADB_AVAILABLE (add_to_vector_db.py:10-16)
    pc,              \* position of event_stream / of the inner generator
    events,          \* events yielded to the transport, in order
    pushes,          \* calls of push_to_supabase, in order
    table,           \* rows the chat_messages table accepted
    routing,         \* result of route_question
    domain,          \* chat.py:95
    searches,        \* queries given to search_documents, in order
    managerCount,    \* PDFVectorDBManager objects constructed
    collections,     \* names of the collections in the chroma store
    context,         \* chat.py:99, 114
    template,        \* prompt template chosen by generate
    chainInput,      \* keys of chain_input
    full_response,   \* accumulator of generate / generate_image
    pushed,          \* model_run.py:93
    modelCalls,      \* chunks requested from the model stream so far
    modelState,      \* "idle", "streaming", "ended", "raised"
    raisedIn,        \* stage where the first exception was raised, or "none"
    tempFile,        \* content of the temp image file
    visionInput,     \* image and question given to the vision model
    error_msg,       \* model_run.py:154
    cancelledAt,     \* pc at which the client disconnected, or "none"
    modelChunks,     \* chunks the model stream delivered, in order
    okEvents,        \* the stream of the same run had every insert succeeded
    \* the vector store (data/functions/add_to_vector_db.py)
    faissIndex,      \* FAISSVectorDB.index: the vectors, in insertion order
    faissMeta,       \* FAISSVectorDB.metadata
    diskIndex,       \* index.faiss
    diskMeta,        \* metadata.json
    chromaDocs,      \* the chroma collection: records with id, document, ...
    lastOp,          \* the last vector-store call and what it gave
    vector_db_type,  \* PDFVectorDBManager.vector_db_type
    \* arguments and results of the pure functions
    flatIn,          \* argument of flatten_docs
    flatOut,         \* its result
    embTexts,        \* argument of generate_embeddings
    embFails,        \* positions whose embed_content call raises
    embOut,          \* its result
    fnCalled,        \* the pure function that has returned, "none" before
    \* two image requests on one event loop
    pairPc,          \* where each request's event_stream stands
    pairName,        \* image.filename of each request
    tempDir,         \* ./temp: the content of each file, "absent" if none
    pairVision,      \* the image bytes each request's vision model was given
    pairFail,        \* the file error that ended each request, "" if none
    pairResp,        \* full_response of each request
    pairCalls        \* chunks each request's vision stream has delivered

reqVars == << hasImage, prompt, supabaseReady, chromaAvailable, pc, events, pushes,
           table, routing, domain, searches, managerCount, collections, context,
           template, chainInput, full_response, pushed, modelCalls, modelState,
           raisedIn, tempFile, visionInput, error_msg, cancelledAt,
           modelChunks, okEvents >>

storeVars == << faissIndex, faissMeta, diskIndex, diskMeta, chromaDocs, lastOp,
                vector_db_type >>

fnVars == << flatIn, flatOut, embTexts, embFails, embOut, fnCalled >>

pairVars == << pairPc, pairName, tempDir, pairVision, pairFail, pairResp, pairCalls >>

auxVars == << storeVars, fnVars, pairVars >>

vars == << reqVars, auxVars >>

(***************************************************************************)
(* Bounds                                                                  *)
(***************************************************************************)
\* chunks one model stream may deliver before it must end or raise
MaxChunks == 2

(***************************************************************************)
(* Inputs                                                                  *)
(***************************************************************************)
Prompts == {"q", " "}

\* fragments the text chain may deliver (StrOutputParser yields strings)
TextChunks == {"", "a", "b"}

\* content of the message chunks the vision model may deliver
VisionChunks == {"", "a", "b"}

ImageBytes == "IMG"

\* messages of the exceptions the collaborators raise
ModelError == "model unavailable"
SearchError == "search failed"
RouterError == "router unavailable"
WriteError == "cannot write temp image"
ChromaError == "ChromaDB not available. Install with: pip install chromadb"
AwaitBoolError == "object bool can't be used in 'await' expression"
InsertError == "insert failed"

(***************************************************************************)
(* Nested result lists: a node is a string leaf, a list of nodes or        *)
(* another object.                                                         *)
(***************************************************************************)
StrNode(s) == [kind |-> "str", val |-> s, items |-> <<>>]
ListNode(xs) == [kind |-> "list", val |-> "", items |-> xs]
OtherNode(s) == [kind |-> "other", val |-> s, items |-> <<>>]

\* values of results["documents"] the collection query may give
SearchDocs ==
    { <<>>,
      << ListNode(<<>>) >>,
      << ListNode(<< StrNode("d1") >>) >>,
      << ListNode(<< StrNode("d1"), StrNode("d2") >>) >> }

\* flatten_docs that skips a nested list instead of recursing into it
RECURSIVE flatten_docs_top_level(_)
flatten_docs_top_level(docs) ==
    IF docs = <<>> THEN <<>>
    ELSE LET doc == Head(docs)
             first == CASE doc.kind = "str" -> << doc.val >>
                        [] doc.kind = "list" -> <<>>
                        [] OTHER -> << doc.val >>
         IN first \o flatten_docs_top_level(Tail(docs))

RECURSIVE flatten_docs(_)
flatten_docs(docs) ==
    IF docs = <<>> THEN <<>>
    ELSE LET doc == Head(docs)
             first == CASE doc.kind = "str" -> << doc.val >>
                        [] doc.kind = "list" -> flatten_docs(doc.items)
                        [] OTHER -> << doc.val >>
         IN first \o flatten_docs(Tail(docs))

RECURSIVE Join(_, _)
Join(sep, xs) ==
    IF xs = <<>> THEN ""
    ELSE IF Len(xs) = 1 THEN xs[1]
    ELSE xs[1] \o sep \o Join(sep, Tail(xs))

\* str.strip() on the prompts of the model
Strip(s) == IF s = " " THEN "" ELSE s

(***************************************************************************)
(* Events                                                                  *)
(***************************************************************************)
StatusEvent(m) == [type |-> "status", data |-> m]
TextEvent(c) == [type |-> "text", data |-> c]
CompleteEvent == [type |-> "complete", data |-> ""]
ErrorEvent(m) == [type |-> "error", data |-> m]

\* the except clause of event_stream: one error event with str(e)
OnExceptionSilent(ev, msg) == ev
OnException(ev, msg) == Append(ev, ErrorEvent(msg))

(***************************************************************************)
(* push_to_supabase: a plain function that returns a bool and never raises *)
(***************************************************************************)
PushOutcomes ==
    IF supabaseReady THEN {"inserted", "insert_error", "insert_raised"}
    ELSE {"no_client"}

\* the call log and the table after push_to_supabase(table, {message: m})
PushLog(m, o) == Append(pushes, [message |-> m, outcome |-> o])
PushTable(m, o) == IF o = "inserted" THEN Append(table, m) ELSE table

\* push_supabase.py:16-31: the insert runs inside try / except Exception,
\* so no outcome of it leaves push_to_supabase as an exception
PushEscapesUncaught(o) == o = "insert_raised"
PushEscapes(o) == FALSE

\* generate_image awaits the bool push_to_supabase returned: TypeError
AwaitPushRaisesNot == FALSE
AwaitPushRaises == TRUE

\* full_response += chunk (model_run.py:61, 124)
AccumulateReplace(acc, c) == c
Accumulate(acc, c) == acc \o c

\* the text of generate_image's error fragment
ErrorMsg(e) == "Sorry, I encountered an error processing the image: " \o e

(***************************************************************************)
(* routing                                                                 *)
(***************************************************************************)
Domains == {"general", "annual_report", "search"}
KeywordLists == { <<>>, <<"k1">>, <<"k1", "k2">> }

NoRouting == [status |-> "none", hasDomain |-> FALSE, domain |-> "", keywords |-> <<>>]

\* what route_question may do: return a dict, with or without the domain
\* key, or raise because the classification model is unreachable
RouterOutcomes ==
    [status : {"ok"}, hasDomain : {TRUE}, domain : Domains, keywords : KeywordLists]
    \cup [status : {"ok"}, hasDomain : {FALSE}, domain : {""}, keywords : KeywordLists]
    \cup {[status |-> "raised", hasDomain |-> FALSE, domain |-> "", keywords |-> <<>>]}

\* routing.get("domain", "general")
DomainOfNoDefault(r) == IF r.hasDomain THEN r.domain ELSE "annual_report"
DomainOf(r) == IF r.hasDomain THEN r.domain ELSE "general"

\* " ".join(keywords) if keywords else prompt
SearchQuery(keywords, p) == IF keywords # <<>> THEN Join(" ", keywords) ELSE p

\* not results.get("documents") or results["documents"] == [[]]
NeedsRetryOnlyFalsy(docs) == docs = <<>>
NeedsRetry(docs) == docs = <<>> \/ docs = << ListNode(<<>>) >>

\* "\n".join(docs_flat) if docs_flat else ""
ContextOf(docs) ==
    LET docs_flat == flatten_docs(docs)
    IN IF docs_flat # <<>> THEN Join("\n", docs_flat) ELSE ""

ContextFoundMsgNested(docs) ==
    "Context found: " \o ToString(Len(docs)) \o " documents"
ContextFoundMsg(docs) ==
    "Context found: " \o ToString(Len(flatten_docs(docs))) \o " documents"

N_RESULTS == 5

NoVisionInput == [image |-> "", question |-> ""]

\* prompt if prompt.strip() else "What do you see in this image?"
FinalQuery(p) == IF Strip(p) # "" THEN p ELSE "What do you see in this image?"

\* the try/except around os.remove keeps a failed cleanup out of the stream
CleanupUncaught == FALSE
CleanupCaught == TRUE

(***************************************************************************)
(* The vector store and the pure functions take no part in a request:      *)
(* their variables rest at these values while a request runs.              *)
(***************************************************************************)
NoResult == [documents |-> <<>>, metadatas |-> <<>>, distances |-> <<>>]

NoFilter == [organization |-> "", document_type |-> "", document_category |-> "",
             year |-> "", language |-> ""]

NoOp == [op |-> "none", error |-> "", nChunks |-> 0, nEmbeddings |-> 0,
         query |-> "", k |-> 0, filter |-> NoFilter, repeat |-> FALSE,
         unfiltered |-> NoResult, result |-> NoResult]

StoreIdle ==
    /\ faissIndex = <<>>
    /\ faissMeta = <<>>
    /\ diskIndex = <<>>
    /\ diskMeta = <<>>
    /\ chromaDocs = <<>>
    /\ lastOp = NoOp
    /\ vector_db_type = "none"

FnIdle ==
    /\ flatIn = <<>>
    /\ flatOut = <<>>
    /\ embTexts = <<>>
    /\ embFails = {}
    /\ embOut = <<>>
    /\ fnCalled = "none"

Requests == {1, 2}

FileNames == {"a.jpg", "b.jpg"}

\* no pair of image requests is running
PairIdle ==
    /\ pairPc = [r \in Requests |-> "start"]
    /\ pairName = [r \in Requests |-> "a.jpg"]
    /\ tempDir = [n \in FileNames |-> "absent"]
    /\ pairVision = [r \in Requests |-> "none"]
    /\ pairFail = [r \in Requests |-> ""]
    /\ pairResp = [r \in Requests |-> ""]
    /\ pairCalls = [r \in Requests |-> 0]

AuxIdle == StoreIdle /\ FnIdle /\ PairIdle

(***************************************************************************)
(* Initial state: the request as chat_endpoint hands it to event_stream    *)
(***************************************************************************)
\* the collections the chroma store holds before the request
InitialCollections == {"annual_report"}

\* everything of a request but its inputs, before event_stream starts
ReqStart ==
    /\ pc = "start"
    /\ events = <<>>
    /\ pushes = <<>>
    /\ table = <<>>
    /\ routing = NoRouting
    /\ domain = ""
    /\ searches = <<>>
    /\ managerCount = 0
    /\ collections = InitialCollections
    /\ context = ""
    /\ template = "none"
    /\ chainInput = {}
    /\ full_response = ""
    /\ pushed = FALSE
    /\ modelCalls = 0
    /\ modelState = "idle"
    /\ raisedIn = "none"
    /\ tempFile = "absent"
    /\ visionInput = NoVisionInput
    /\ error_msg = ""
    /\ cancelledAt = "none"
    /\ modelChunks = <<>>
    /\ okEvents = <<>>

Init ==
    /\ hasImage \in BOOLEAN
    /\ prompt \in Prompts
    /\ supabaseReady \in BOOLEAN
    /\ chromaAvailable \in BOOLEAN
    /\ ReqStart
    /\ AuxIdle

\* no request is running: the state of the request's variables while the
\* vector store or a pure function is exercised on its own
ReqIdle ==
    /\ hasImage = FALSE
    /\ prompt = "q"
    /\ supabaseReady = TRUE
    /\ chromaAvailable = TRUE
    /\ ReqStart

inputVars == << hasImage, prompt, supabaseReady, chromaAvailable >>
routeVars == << routing, domain, searches, managerCount, collections, context >>
genVars == << template, chainInput, full_response, pushed, modelCalls, modelState,
             modelChunks >>
pushVars == << pushes, table >>

imgVars == << tempFile, visionInput, error_msg >>

(***************************************************************************)
(* Image path: chat.py:51-84 with generate_image (model_run.py:80-166)     *)
(***************************************************************************)
\* chat.py:51: if image_bytes
TakesImagePathNever == FALSE
TakesImagePath == hasImage

\* chat.py:52
ImgStatus ==
    /\ pc = "start"
    /\ TakesImagePath
    /\ events' = Append(events, StatusEvent("Processing uploaded image..."))
    /\ okEvents' = Append(okEvents, StatusEvent("Processing uploaded image..."))
    /\ pc' = "img_status_y"
    /\ UNCHANGED << auxVars, inputVars, routeVars, genVars, pushVars, imgVars,
                    raisedIn, cancelledAt >>

\* chat.py:54-71 and model_run.py:90-118: write the temp file, open it again
\* and start streaming the vision model; a failed write reaches the except
\* clause of event_stream
ImgSave ==
    /\ pc = "img_status_y"
    /\ \E ok \in BOOLEAN :
         IF ok
         THEN /\ tempFile' = ImageBytes
              /\ visionInput' = [image |-> ImageBytes, question |-> FinalQuery(prompt)]
              /\ pushed' = FALSE
              /\ full_response' = ""
              /\ modelState' = "streaming"
              /\ pc' = "img_stream"
              /\ UNCHANGED << events, okEvents, raisedIn >>
         ELSE /\ raisedIn' = "save"
              /\ events' = OnException(events, WriteError)
              /\ okEvents' = OnException(okEvents, WriteError)
              /\ pc' = "error_y"
              /\ UNCHANGED << tempFile, visionInput, pushed, full_response, modelState >>
    /\ UNCHANGED << auxVars, inputVars, routeVars, pushVars, template, chainInput,
                    modelCalls, modelChunks, error_msg, cancelledAt >>

\* model_run.py:118-131: the next chunk of the vision stream
ImgChunk ==
    /\ pc \in {"img_stream", "img_text_y"}
    /\ modelCalls < MaxChunks
    /\ \E c \in VisionChunks :
         /\ modelCalls' = modelCalls + 1
         /\ modelChunks' = Append(modelChunks, c)
         /\ IF c # ""
            THEN /\ full_response' = Accumulate(full_response, c)
                 /\ events' = Append(events, TextEvent(c))
                 /\ okEvents' = Append(okEvents, TextEvent(c))
                 /\ pc' = "img_text_y"
            ELSE /\ pc' = "img_stream"
                 /\ UNCHANGED << full_response, events, okEvents >>
    /\ UNCHANGED << auxVars, inputVars, routeVars, pushVars, imgVars, template, chainInput,
                    pushed, modelState, raisedIn, cancelledAt >>

\* the events after the push that follows an exhausted vision stream
\* (model_run.py:141-155, chat.py:75): the push is inside the try block
ImgEndEvents(ev, o) ==
    IF PushEscapes(o) THEN Append(ev, TextEvent(ErrorMsg(InsertError)))
    ELSE IF AwaitPushRaises THEN Append(ev, TextEvent(ErrorMsg(AwaitBoolError)))
    ELSE Append(ev, CompleteEvent)

\* model_run.py:132-155 and chat.py:75: the vision stream is exhausted
ImgEnd ==
    /\ pc \in {"img_stream", "img_text_y"}
    /\ modelState' = "ended"
    /\ IF full_response # ""
       THEN \E o \in PushOutcomes :
              /\ pushes' = PushLog(full_response, o)
              /\ table' = PushTable(full_response, o)
              /\ events' = ImgEndEvents(events, o)
              /\ okEvents' = ImgEndEvents(okEvents, "inserted")
              /\ IF PushEscapes(o)
                 THEN /\ raisedIn' = "push"
                      /\ error_msg' = ErrorMsg(InsertError)
                      /\ pc' = "img_err_y"
                      /\ UNCHANGED pushed
                 ELSE IF AwaitPushRaises
                 THEN /\ raisedIn' = "persist"
                      /\ error_msg' = ErrorMsg(AwaitBoolError)
                      /\ pc' = "img_err_y"
                      /\ UNCHANGED pushed
                 ELSE /\ pushed' = TRUE
                      /\ pc' = "img_complete_y"
                      /\ UNCHANGED << raisedIn, error_msg >>
       ELSE /\ events' = Append(events, CompleteEvent)
            /\ okEvents' = Append(okEvents, CompleteEvent)
            /\ pc' = "img_complete_y"
            /\ UNCHANGED << pushVars, pushed, raisedIn, error_msg >>
    /\ UNCHANGED << auxVars, inputVars, routeVars, tempFile, visionInput, template,
                    chainInput, full_response, modelCalls, modelChunks, cancelledAt >>

\* model_run.py:152-155: the vision model raises
ImgRaise ==
    /\ pc \in {"img_stream", "img_text_y"}
    /\ modelState' = "raised"
    /\ raisedIn' = "generation"
    /\ error_msg' = ErrorMsg(ModelError)
    /\ events' = Append(events, TextEvent(ErrorMsg(ModelError)))
    /\ okEvents' = Append(okEvents, TextEvent(ErrorMsg(ModelError)))
    /\ pc' = "img_err_y"
    /\ UNCHANGED << auxVars, inputVars, routeVars, pushVars, tempFile, visionInput, template,
                    chainInput, full_response, pushed, modelCalls, modelChunks, cancelledAt >>

\* the events after the push of the error message (model_run.py:156-166,
\* chat.py:75, 131-133): the push is inside the except block
ImgErrEvents(ev, o) ==
    IF PushEscapes(o) THEN OnException(ev, InsertError)
    ELSE IF AwaitPushRaises THEN OnException(ev, AwaitBoolError)
    ELSE Append(ev, CompleteEvent)

\* model_run.py:156-166, then chat.py:75 or chat.py:131-133
ImgErrResume ==
    /\ pc = "img_err_y"
    /\ IF ~pushed
       THEN \E o \in PushOutcomes :
              /\ pushes' = PushLog(error_msg, o)
              /\ table' = PushTable(error_msg, o)
              /\ events' = ImgErrEvents(events, o)
              /\ okEvents' = ImgErrEvents(okEvents, "inserted")
              /\ pc' = IF PushEscapes(o) \/ AwaitPushRaises THEN "error_y"
                       ELSE "img_complete_y"
       ELSE /\ events' = Append(events, CompleteEvent)
            /\ okEvents' = Append(okEvents, CompleteEvent)
            /\ pc' = "img_complete_y"
            /\ UNCHANGED pushVars
    /\ UNCHANGED << auxVars, inputVars, routeVars, genVars, imgVars, raisedIn, cancelledAt >>

\* chat.py:77-84
ImgCleanup ==
    /\ pc = "img_complete_y"
    /\ \E ok \in BOOLEAN :
         IF ok
         THEN /\ tempFile' = "absent"
              /\ pc' = "done"
              /\ UNCHANGED << events, okEvents, raisedIn >>
         ELSE IF CleanupCaught
              THEN /\ pc' = "done"
                   /\ UNCHANGED << tempFile, events, okEvents, raisedIn >>
              ELSE /\ raisedIn' = "cleanup"
                   /\ events' = OnException(events, "cannot remove temp image")
                   /\ okEvents' = OnException(okEvents, "cannot remove temp image")
                   /\ pc' = "error_y"
                   /\ UNCHANGED tempFile
    /\ UNCHANGED << auxVars, inputVars, routeVars, genVars, pushVars, visionInput,
                    error_msg, cancelledAt >>

(***************************************************************************)
(* Text path: chat.py:89-129 with generate (model_run.py:36-78)            *)
(***************************************************************************)
\* what one call of search_documents may do: return the collection's
\* result or raise
SearchOutcomes ==
    [raised : {FALSE}, docs : SearchDocs] \cup {[raised |-> TRUE, docs |-> <<>>]}

\* one call of search_documents(query=q, n_results=5) and what it gave
SearchCall(q, o) == [query |-> q, n_results |-> N_RESULTS, result |-> o]

\* chat.py:109-112: the keyword search and, when it found nothing, the
\* search with the raw prompt
SearchRun(q1, p, o1, o2) ==
    IF o1.raised THEN [calls |-> << SearchCall(q1, o1) >>, raised |-> TRUE, docs |-> <<>>]
    ELSE IF NeedsRetry(o1.docs)
         THEN [calls |-> << SearchCall(q1, o1), SearchCall(p, o2) >>,
               raised |-> o2.raised, docs |-> o2.docs]
         ELSE [calls |-> << SearchCall(q1, o1) >>, raised |-> FALSE, docs |-> o1.docs]

\* model_run.py:48
TemplateForAlwaysRag(ctx) == "rag"
TemplateFor(ctx) == IF ctx # "" THEN "rag" ELSE "general"

\* model_run.py:52-54
ChainInputFor(ctx) == IF ctx # "" THEN {"question", "context"} ELSE {"question"}

\* chat.py:89
TxtStatus ==
    /\ pc = "start"
    /\ ~TakesImagePath
    /\ events' = Append(events, StatusEvent("Processing query..."))
    /\ okEvents' = Append(okEvents, StatusEvent("Processing query..."))
    /\ pc' = "t_proc_y"
    /\ UNCHANGED << auxVars, inputVars, routeVars, genVars, pushVars, imgVars,
                    raisedIn, cancelledAt >>

\* chat.py:90
RoutingStatus ==
    /\ pc = "t_proc_y"
    /\ events' = Append(events, StatusEvent("Routing query..."))
    /\ okEvents' = Append(okEvents, StatusEvent("Routing query..."))
    /\ pc' = "t_route_y"
    /\ UNCHANGED << auxVars, inputVars, routeVars, genVars, pushVars, imgVars,
                    raisedIn, cancelledAt >>

\* chat.py:92-101 and 119: route the question, then announce the search or,
\* for the general domain, the generation
Route ==
    /\ pc = "t_route_y"
    /\ \E r \in RouterOutcomes :
         /\ routing' = r
         /\ IF r.status = "raised"
            THEN /\ raisedIn' = "routing"
                 /\ events' = OnException(events, RouterError)
                 /\ okEvents' = OnException(okEvents, RouterError)
                 /\ pc' = "error_y"
                 /\ UNCHANGED domain
            ELSE /\ domain' = DomainOf(r)
                 /\ IF DomainOf(r) # "general"
                    THEN /\ events' = Append(events, StatusEvent("Searching for context..."))
                         /\ okEvents' = Append(okEvents, StatusEvent("Searching for context..."))
                         /\ pc' = "t_search_y"
                    ELSE /\ events' = Append(events, StatusEvent("Generating response..."))
                         /\ okEvents' = Append(okEvents, StatusEvent("Generating response..."))
                         /\ pc' = "t_gen_y"
                 /\ UNCHANGED raisedIn
    /\ UNCHANGED << auxVars, inputVars, searches, managerCount, collections, context,
                    genVars, pushVars, imgVars, cancelledAt >>

\* chat.py:102-116: construct the manager (ChromaVectorDB.__init__ gets or
\* creates the collection named by the domain), search, flatten
Retrieve ==
    /\ pc = "t_search_y"
    /\ IF ~chromaAvailable
       THEN /\ raisedIn' = "retrieval"
            /\ events' = OnException(events, ChromaError)
            /\ okEvents' = OnException(okEvents, ChromaError)
            /\ pc' = "error_y"
            /\ UNCHANGED << searches, managerCount, collections, context >>
       ELSE /\ managerCount' = managerCount + 1
            /\ collections' = collections \cup {domain}
            /\ \E o1 \in SearchOutcomes, o2 \in SearchOutcomes :
                 LET run == SearchRun(SearchQuery(routing.keywords, prompt), prompt, o1, o2)
                 IN /\ searches' = searches \o run.calls
                    /\ IF run.raised
                       THEN /\ raisedIn' = "retrieval"
                            /\ events' = OnException(events, SearchError)
                            /\ okEvents' = OnException(okEvents, SearchError)
                            /\ pc' = "error_y"
                            /\ UNCHANGED context
                       ELSE /\ context' = ContextOf(run.docs)
                            /\ events' = Append(events, StatusEvent(ContextFoundMsg(run.docs)))
                            /\ okEvents' = Append(okEvents, StatusEvent(ContextFoundMsg(run.docs)))
                            /\ pc' = "t_ctx_y"
                            /\ UNCHANGED raisedIn
    /\ UNCHANGED << auxVars, inputVars, routing, domain, genVars, pushVars, imgVars, cancelledAt >>

\* chat.py:119 after a retrieval
GenStatus ==
    /\ pc = "t_ctx_y"
    /\ events' = Append(events, StatusEvent("Generating response..."))
    /\ okEvents' = Append(okEvents, StatusEvent("Generating response..."))
    /\ pc' = "t_gen_y"
    /\ UNCHANGED << auxVars, inputVars, routeVars, genVars, pushVars, imgVars,
                    raisedIn, cancelledAt >>

\* chat.py:120-126 and model_run.py:48-59: generate picks the template and
\* starts the chain's stream
GenStart ==
    /\ pc = "t_gen_y"
    /\ template' = TemplateFor(context)
    /\ chainInput' = ChainInputFor(context)
    /\ full_response' = ""
    /\ modelState' = "streaming"
    /\ pc' = "t_stream"
    /\ UNCHANGED << auxVars, inputVars, routeVars, pushVars, imgVars, events, okEvents, pushed,
                    modelCalls, modelChunks, raisedIn, cancelledAt >>

\* model_run.py:59-62 and chat.py:127: the next chunk of the chain's stream
TxtChunk ==
    /\ pc \in {"t_stream", "t_text_y"}
    /\ modelCalls < MaxChunks
    /\ \E c \in TextChunks :
         /\ modelCalls' = modelCalls + 1
         /\ modelChunks' = Append(modelChunks, c)
         /\ IF c # ""
            THEN /\ full_response' = Accumulate(full_response, c)
                 /\ events' = Append(events, TextEvent(c))
                 /\ okEvents' = Append(okEvents, TextEvent(c))
                 /\ pc' = "t_text_y"
            ELSE /\ pc' = "t_stream"
                 /\ UNCHANGED << full_response, events, okEvents >>
    /\ UNCHANGED << auxVars, inputVars, routeVars, pushVars, imgVars, template, chainInput,
                    pushed, modelState, raisedIn, cancelledAt >>

\* the events after generate's push (model_run.py:67-78, chat.py:129-133):
\* generate has no handler around it
TxtEndEvents(ev, o) ==
    IF PushEscapes(o) THEN OnException(ev, InsertError)
    ELSE Append(ev, CompleteEvent)

\* model_run.py:67-78 and chat.py:129: the stream is exhausted
TxtEnd ==
    /\ pc \in {"t_stream", "t_text_y"}
    /\ modelState' = "ended"
    /\ \E o \in PushOutcomes :
         /\ pushes' = PushLog(full_response, o)
         /\ table' = PushTable(full_response, o)
         /\ events' = TxtEndEvents(events, o)
         /\ okEvents' = TxtEndEvents(okEvents, "inserted")
         /\ pc' = IF PushEscapes(o) THEN "error_y" ELSE "t_complete_y"
         /\ raisedIn' = IF PushEscapes(o) THEN "push" ELSE raisedIn
    /\ UNCHANGED << auxVars, inputVars, routeVars, imgVars, template, chainInput,
                    full_response, pushed, modelCalls, modelChunks, cancelledAt >>

\* chat.py:131-133: the chain raises inside generate, which has no handler
TxtRaise ==
    /\ pc \in {"t_stream", "t_text_y"}
    /\ modelState' = "raised"
    /\ raisedIn' = "generation"
    /\ events' = OnException(events, ModelError)
    /\ okEvents' = OnException(okEvents, ModelError)
    /\ pc' = "error_y"
    /\ UNCHANGED << auxVars, inputVars, routeVars, pushVars, imgVars, template, chainInput,
                    full_response, pushed, modelCalls, modelChunks, cancelledAt >>

\* the generator returns after its terminal event
Finish ==
    /\ pc \in {"t_complete_y", "error_y"}
    /\ pc' = "done"
    /\ UNCHANGED << auxVars, inputVars, routeVars, genVars, pushVars, imgVars, events, okEvents,
                    raisedIn, cancelledAt >>

\* positions where event_stream is suspended at a yield, or generate /
\* generate_image at the await on the model stream
SuspendedPcs ==
    {"img_status_y", "img_stream", "img_text_y", "img_err_y", "img_complete_y",
     "t_proc_y", "t_route_y", "t_search_y", "t_ctx_y", "t_gen_y", "t_stream",
     "t_text_y", "t_complete_y", "error_y"}

\* the client disconnects: GeneratorExit / CancelledError at the suspension
\* point; neither is an Exception, so no handler and no later statement runs
Cancel ==
    /\ pc \in SuspendedPcs
    /\ cancelledAt' = pc
    /\ pc' = "closed"
    /\ UNCHANGED << auxVars, inputVars, routeVars, genVars, pushVars, imgVars, events, okEvents, raisedIn >>

Progress ==
    \/ ImgStatus \/ ImgSave \/ ImgChunk \/ ImgEnd \/ ImgRaise \/ ImgErrResume
    \/ ImgCleanup
    \/ TxtStatus \/ RoutingStatus \/ Route \/ Retrieve \/ GenStatus \/ GenStart
    \/ TxtChunk \/ TxtEnd \/ TxtRaise
    \/ Finish

Next == Progress \/ Cancel

Spec == Init /\ [][Next]_vars

\* the transport keeps pulling the stream of a connected client, and the
\* model, the vector store and the persistence calls return
FairSpec == Spec /\ WF_vars(Progress)

(***************************************************************************)
(* Two image requests on one event loop: chat.py:51-84 with                *)
(* generate_image (model_run.py:90-166), sharing the directory ./temp      *)
(***************************************************************************)
FileNotFoundError == "FileNotFoundError"

\* image_bytes of each request
Upload(r) == IF r = 1 THEN "IMG1" ELSE "IMG2"

\* content of the message chunks of the vision model
PairChunks == {"", "a"}

\* a generate_image that opens the file only after its first await
ReadBeforeFirstAwaitNot == FALSE

\* generate_image opens and reads image_path (model_run.py:96-97) in the
\* resumption in which event_stream wrote it (chat.py:59-60): no await or
\* yield lies between them
ReadBeforeFirstAwait == TRUE

PairInit ==
    /\ ReqIdle
    /\ StoreIdle
    /\ FnIdle
    /\ pairPc = [r \in Requests |-> "start"]
    /\ pairName \in [Requests -> FileNames]
    /\ tempDir = [n \in FileNames |-> "absent"]
    /\ pairVision = [r \in Requests |-> "none"]
    /\ pairFail = [r \in Requests |-> ""]
    /\ pairResp = [r \in Requests |-> ""]
    /\ pairCalls = [r \in Requests |-> 0]

pairRest == << reqVars, storeVars, fnVars, pairName >>

\* chat.py:52
PairStatus(r) ==
    /\ pairPc[r] = "start"
    /\ pairPc' = [pairPc EXCEPT ![r] = "status_y"]
    /\ UNCHANGED << pairRest, tempDir, pairVision, pairFail, pairResp, pairCalls >>

\* chat.py:54-71 and model_run.py:90-118: write ./temp/<filename>, then
\* generate_image runs up to the await on the vision stream
PairSave(r) ==
    /\ pairPc[r] = "status_y"
    /\ tempDir' = [tempDir EXCEPT ![pairName[r]] = Upload(r)]
    /\ pairVision' = IF ReadBeforeFirstAwait
                     THEN [pairVision EXCEPT ![r] = tempDir'[pairName[r]]]
                     ELSE pairVision
    /\ pairPc' = [pairPc EXCEPT ![r] = "stream"]
    /\ UNCHANGED << pairRest, pairFail, pairResp, pairCalls >>

\* the bytes the vision model of r has or, with the read still to come,
\* what the file holds now
BytesSeen(r) ==
    IF pairVision[r] = "none" THEN tempDir[pairName[r]] ELSE pairVision[r]

\* model_run.py:118-131: the next chunk of the vision stream
PairChunk(r) ==
    /\ pairPc[r] \in {"stream", "text_y"}
    /\ pairCalls[r] < MaxChunks
    /\ IF BytesSeen(r) = "absent"
       THEN /\ pairFail' = [pairFail EXCEPT ![r] = FileNotFoundError]
            /\ pairPc' = [pairPc EXCEPT ![r] = "err_y"]
            /\ UNCHANGED << pairVision, pairResp, pairCalls >>
       ELSE \E c \in PairChunks :
              /\ pairVision' = [pairVision EXCEPT ![r] = BytesSeen(r)]
              /\ pairCalls' = [pairCalls EXCEPT ![r] = @ + 1]
              /\ pairResp' = [pairResp EXCEPT ![r] = IF c # "" THEN Accumulate(@, c) ELSE @]
              /\ pairPc' = [pairPc EXCEPT ![r] = IF c # "" THEN "text_y" ELSE "stream"]
              /\ UNCHANGED pairFail
    /\ UNCHANGED << pairRest, tempDir >>

\* model_run.py:132-155 and chat.py:75: the vision stream is exhausted; a
\* non-empty response is pushed and the await on the push's result raises
PairEnd(r) ==
    /\ pairPc[r] \in {"stream", "text_y"}
    /\ IF BytesSeen(r) = "absent"
       THEN /\ pairFail' = [pairFail EXCEPT ![r] = FileNotFoundError]
            /\ pairPc' = [pairPc EXCEPT ![r] = "err_y"]
            /\ UNCHANGED pairVision
       ELSE /\ pairVision' = [pairVision EXCEPT ![r] = BytesSeen(r)]
            /\ pairPc' = [pairPc EXCEPT ![r] = IF pairResp[r] # "" /\ AwaitPushRaises
                                              THEN "err_y" ELSE "complete_y"]
            /\ UNCHANGED pairFail
    /\ UNCHANGED << pairRest, tempDir, pairResp, pairCalls >>

\* model_run.py:155-157: the vision stream raises
PairRaise(r) ==
    /\ pairPc[r] \in {"stream", "text_y"}
    /\ pairPc' = [pairPc EXCEPT ![r] = "err_y"]
    /\ UNCHANGED << pairRest, tempDir, pairVision, pairFail, pairResp, pairCalls >>

\* model_run.py:158-166, then chat.py:75 or chat.py:131-133
PairErrResume(r) ==
    /\ pairPc[r] = "err_y"
    /\ pairPc' = [pairPc EXCEPT ![r] = IF AwaitPushRaises THEN "error_y"
                                       ELSE "complete_y"]
    /\ UNCHANGED << pairRest, tempDir, pairVision, pairFail, pairResp, pairCalls >>

\* chat.py:77-84: os.remove(image_path); a missing file is logged
PairCleanup(r) ==
    /\ pairPc[r] = "complete_y"
    /\ IF tempDir[pairName[r]] # "absent"
       THEN /\ tempDir' = [tempDir EXCEPT ![pairName[r]] = "absent"]
            /\ pairPc' = [pairPc EXCEPT ![r] = "done"]
            /\ UNCHANGED pairFail
       ELSE IF CleanupCaught
       THEN /\ pairPc' = [pairPc EXCEPT ![r] = "done"]
            /\ UNCHANGED << tempDir, pairFail >>
       ELSE /\ pairFail' = [pairFail EXCEPT ![r] = FileNotFoundError]
            /\ pairPc' = [pairPc EXCEPT ![r] = "error_y"]
            /\ UNCHANGED tempDir
    /\ UNCHANGED << pairRest, pairVision, pairResp, pairCalls >>

\* chat.py:131-133: the error event was taken
PairFinish(r) ==
    /\ pairPc[r] = "error_y"
    /\ pairPc' = [pairPc EXCEPT ![r] = "done"]
    /\ UNCHANGED << pairRest, tempDir, pairVision, pairFail, pairResp, pairCalls >>

\* the client of r disconnects while r is suspended
PairCancel(r) ==
    /\ pairPc[r] \in {"status_y", "stream", "text_y", "err_y", "complete_y", "error_y"}
    /\ pairPc' = [pairPc EXCEPT ![r] = "closed"]
    /\ UNCHANGED << pairRest, tempDir, pairVision, pairFail, pairResp, pairCalls >>

\* one event loop runs one request's resumption at a time
PairNext ==
    \E r \in Requests :
        \/ PairStatus(r) \/ PairSave(r) \/ PairChunk(r) \/ PairEnd(r) \/ PairRaise(r)
        \/ PairErrResume(r) \/ PairCleanup(r) \/ PairFinish(r) \/ PairCancel(r)

PairSpec == PairInit /\ [][PairNext]_vars

(***************************************************************************)
(* flatten_docs on its own (routes/chat.py:16-29)                          *)
(***************************************************************************)
MaxDepth == 2

Widths == 0..2

\* the values a list element may have: a string, something that is neither
\* a string nor a list (str(None) = "None"), or a list of such values
Leaves == { StrNode("x"), StrNode("y"), OtherNode("None") }

\* the sequences over S with a length in Widths
SeqsOver(S) == UNION { [1..n -> S] : n \in Widths }

RECURSIVE Values(_)
Values(d) ==
    IF d = 0 THEN Leaves
    ELSE Values(d - 1) \cup { ListNode(xs) : xs \in SeqsOver(Values(d - 1)) }

\* the arguments of flatten_docs: lists nested at most MaxDepth deep
FlattenInputs == SeqsOver(Values(MaxDepth - 1))

FlattenInit ==
    /\ ReqIdle
    /\ PairIdle
    /\ StoreIdle
    /\ flatIn \in FlattenInputs
    /\ flatOut = <<>>
    /\ embTexts = <<>>
    /\ embFails = {}
    /\ embOut = <<>>
    /\ fnCalled = "none"

CallFlatten ==
    /\ fnCalled = "none"
    /\ flatOut' = flatten_docs(flatIn)
    /\ fnCalled' = "flatten_docs"
    /\ UNCHANGED << reqVars, pairVars, storeVars, flatIn, embTexts, embFails, embOut >>

FlattenNext == CallFlatten

FlattenSpec == FlattenInit /\ [][FlattenNext]_vars

(***************************************************************************)
(* EmbeddingGenerator.generate_embeddings, method "gemini"                 *)
(* (data/functions/add_to_vector_db.py:87-118)                             *)
(***************************************************************************)
MaxTexts == 3

Texts == {"t1", "t2"}

\* the length of the vectors models/embedding-001 returns
GeminiDimension == 768

\* result['embedding'] of a genai.embed_content call that returns
EmbedContent(text) == [i \in 1..GeminiDimension |-> IF text = "t1" THEN 1 ELSE 2]

\* a fallback of the length of the sentence-transformers vectors
FallbackVectorMiniLM == [i \in 1..384 |-> 0]

\* [0.0] * 768
FallbackVector == [i \in 1..768 |-> 0]

\* the loop over texts from position i on; fails holds the positions whose
\* embed_content call raises
RECURSIVE GeminiLoop(_, _, _)
GeminiLoop(texts, fails, i) ==
    IF i > Len(texts) THEN <<>>
    ELSE << IF i \in fails THEN FallbackVector ELSE EmbedContent(texts[i]) >>
         \o GeminiLoop(texts, fails, i + 1)

generate_embeddings(texts, fails) == GeminiLoop(texts, fails, 1)

EmbedInit ==
    /\ ReqIdle
    /\ PairIdle
    /\ StoreIdle
    /\ flatIn = <<>>
    /\ flatOut = <<>>
    /\ embTexts \in UNION { [1..n -> Texts] : n \in 0..MaxTexts }
    /\ embFails \in SUBSET (1..Len(embTexts))
    /\ embOut = <<>>
    /\ fnCalled = "none"

CallGenerateEmbeddings ==
    /\ fnCalled = "none"
    /\ embOut' = generate_embeddings(embTexts, embFails)
    /\ fnCalled' = "generate_embeddings"
    /\ UNCHANGED << reqVars, pairVars, storeVars, flatIn, flatOut, embTexts, embFails >>

EmbedNext == CallGenerateEmbeddings

EmbedSpec == EmbedInit /\ [][EmbedNext]_vars

(***************************************************************************)
(* The vector store on its own: ChromaVectorDB, FAISSVectorDB and          *)
(* PDFVectorDBManager.search_documents                                     *)
(* (data/functions/add_to_vector_db.py)                                    *)
(***************************************************************************)
\* the add calls of the model stop when the store holds MaxStore entries
MaxStore == 2

MismatchError == "Number of chunks must match number of embeddings"
IndexError == "IndexError"
ValueError == "ValueError"

\* dict.get(key, default)
Get(d, key, default) == IF key \in DOMAIN d THEN d[key] ELSE default

\* the chunks handed to add_documents; every value of the model is a string
ChunkA == [text |-> "a1", file_hash |-> "hA",
           metadata |-> [organization |-> "FAO", language |-> "en"]]
ChunkB == [text |-> "b1", file_hash |-> "hB",
           metadata |-> [organization |-> "fao", language |-> "hi"]]
ChunkC == [text |-> "c1", file_hash |-> "hC", metadata |-> [language |-> "en"]]

Chunks == {ChunkA, ChunkB, ChunkC}

\* embeddings are vectors of two integers along one axis, so that their
\* L2 norm is |x| + |y|; generate_embeddings gives each text its vector
ChunkEmbedding(chunk) == IF chunk.text = "b1" THEN <<0, 1>> ELSE <<2, 0>>

\* the chunk lists of one add call
ChunkLists == UNION { [1..n -> Chunks] : n \in 0..2 }

\* the embedding lists a chunk list may come with: the embeddings of its
\* texts, one too few, or one too many
EmbeddingLists(chunks) ==
    LET exact == [i \in 1..Len(chunks) |-> ChunkEmbedding(chunks[i])]
    IN { exact, Append(exact, <<2, 0>>) }
       \cup IF exact = <<>> THEN {} ELSE { SubSeq(exact, 1, Len(exact) - 1) }

\* embedding lists of the right length whose last vector has a third
\* component, as a generator of another dimension gives
WrongDimensionLists(chunks) ==
    IF chunks = <<>> THEN {}
    ELSE { [i \in 1..Len(chunks) |->
              IF i = Len(chunks) THEN <<1, 0, 0>> ELSE ChunkEmbedding(chunks[i])] }

Abs(x) == IF x < 0 THEN 0 - x ELSE x

\* faiss.normalize_L2 on one row: divides by the norm, leaves a zero row
normalize_L2(v) ==
    LET n == Abs(v[1]) + Abs(v[2])
    IN IF n = 0 THEN v ELSE << v[1] \div n, v[2] \div n >>

InnerProduct(u, v) == u[1] * v[1] + u[2] * v[2]

SquaredL2(u, v) == (u[1] - v[1]) * (u[1] - v[1]) + (u[2] - v[2]) * (u[2] - v[2])

\* add_documents without the length check
LengthsMatchUnchecked(chunks, embeddings) == TRUE

LengthsMatch(chunks, embeddings) == Len(chunks) = Len(embeddings)

\* the entry FAISSVectorDB.add_documents appends to self.metadata
EnhancedChunk(chunk) ==
    LET chunk_metadata == Get(chunk, "metadata", <<>>)
    IN [text |-> Get(chunk, "text", ""),
        file_hash |-> Get(chunk, "file_hash", ""),
        organization |-> Get(chunk_metadata, "organization", "Unknown"),
        document_type |-> Get(chunk_metadata, "document_type", "Unknown"),
        document_category |-> Get(chunk_metadata, "document_category", "General"),
        publication_year |-> Get(chunk_metadata, "publication_year", "Unknown"),
        language |-> Get(chunk_metadata, "language", "Unknown")]

DimensionError == "DimensionError"
OSError == "OSError"

\* the metadata loop of an add_documents that skips a chunk whose entry the
\* list already holds
RECURSIVE AppendMetadataOnce(_, _)
AppendMetadataOnce(meta, chunks) ==
    IF chunks = <<>> THEN meta
    ELSE LET e == EnhancedChunk(Head(chunks))
         IN AppendMetadataOnce(IF \E i \in 1..Len(meta) : meta[i] = e
                               THEN meta ELSE Append(meta, e),
                               Tail(chunks))

\* the metadata loop of FAISSVectorDB.add_documents: one entry per chunk
AppendMetadata(meta, chunks) ==
    meta \o [i \in 1..Len(chunks) |-> EnhancedChunk(chunks[i])]

\* FAISSVectorDB.add_documents up to the writes to disk: the error it
\* raises ("" when none) and the index and the metadata list it leaves
FaissAddResult(index, meta, chunks, embeddings) ==
    IF ~LengthsMatch(chunks, embeddings)
    THEN [error |-> MismatchError, index |-> index, meta |-> meta]
    ELSE IF embeddings = <<>>
    THEN \* np.array([]) has one axis: normalize_L2 reads x.shape[1]
         [error |-> IndexError, index |-> index, meta |-> meta]
    ELSE IF \E i \in 1..Len(embeddings) : Len(embeddings[i]) # 2
    THEN \* np.array refuses rows of unequal length, index.add rows of
         \* another dimension than the index
         [error |-> DimensionError, index |-> index, meta |-> meta]
    ELSE [error |-> "",
          index |-> index \o [i \in 1..Len(embeddings) |-> normalize_L2(embeddings[i])],
          meta |-> AppendMetadata(meta, chunks)]

\* what write_index and json.dump may do
WriteOutcomes == {"ok", "write_index_raises", "dump_raises"}

\* metadata.json after a json.dump that raised: opened for writing, so cut
\* off, and not closed by a bracket
CorruptFile == << [corrupt |-> TRUE] >>

\* the record ChromaVectorDB.add_documents builds for chunk number i (from 0)
ChromaRecord(chunk, i, embedding) ==
    LET chunk_metadata == Get(chunk, "metadata", <<>>)
    IN [id |-> Get(chunk, "file_hash", "unknown") \o "_" \o ToString(i),
        document |-> chunk.text,
        embedding |-> embedding,
        metadata |->
           [text |-> "",
            file_hash |-> Get(chunk, "file_hash", ""),
            organization |-> Get(chunk_metadata, "organization", "Unknown"),
            document_type |-> Get(chunk_metadata, "document_type", "Unknown"),
            document_category |-> Get(chunk_metadata, "document_category", "General"),
            publication_year |-> Get(chunk_metadata, "publication_year", "Unknown"),
            language |-> Get(chunk_metadata, "language", "Unknown")]]

\* collection.add: a record whose id the collection already holds is ignored
RECURSIVE CollectionAdd(_, _)
CollectionAdd(docs, records) ==
    IF records = <<>> THEN docs
    ELSE LET r == Head(records)
             held == \E i \in 1..Len(docs) : docs[i].id = r.id
         IN CollectionAdd(IF held THEN docs ELSE Append(docs, r), Tail(records))

\* ChromaVectorDB.add_documents
ChromaAddResult(docs, chunks, embeddings) ==
    IF ~LengthsMatch(chunks, embeddings)
    THEN [error |-> MismatchError, docs |-> docs]
    ELSE IF chunks = <<>> \/ Len(chunks) # Len(embeddings)
    THEN \* collection.add refuses empty lists and lists of unequal lengths
         [error |-> ValueError, docs |-> docs]
    ELSE [error |-> "",
          docs |-> CollectionAdd(docs,
                      [i \in 1..Len(chunks) |->
                          ChromaRecord(chunks[i], i - 1, embeddings[i])])]

\* the texts search_documents is asked for and the embedding
\* generate_embeddings([query])[0] gives each
Queries == {"q1", "q2"}

QueryEmbedding(query) == IF query = "q1" THEN <<3, 0>> ELSE <<0, 2>>

\* the values of n_results
Ks == {1, 2}

\* the filter arguments of search_documents; "" stands for None
FilterArgs ==
    { NoFilter,
      [NoFilter EXCEPT !.organization = "fao"],
      [NoFilter EXCEPT !.organization = "FAO", !.language = "en"] }

FilterKeyNames ==
    {"organization", "document_type", "document_category", "publication_year",
     "language"}

ArgOf(args, key) == IF key = "publication_year" THEN args.year ELSE args[key]

\* where_filter: the arguments that are truthy
WhereFilter(args) ==
    [key \in { n \in FilterKeyNames : ArgOf(args, n) # "" } |-> ArgOf(args, key)]

\* str.lower() on the strings of the model
Lower(str) ==
    CASE str = "FAO" -> "fao"
      [] str = "WHO" -> "who"
      [] str = "Unknown" -> "unknown"
      [] str = "General" -> "general"
      [] OTHER -> str

\* a post filter that compares the values as they are
MetadataMatchesExact(metadata, where_filter) ==
    \A key \in DOMAIN where_filter :
        Get(metadata, key, "") = where_filter[key]

\* the inner loop of _apply_post_filter
MetadataMatches(metadata, where_filter) ==
    \A key \in DOMAIN where_filter :
        Lower(Get(metadata, key, "")) = Lower(where_filter[key])

\* the score IndexFlatIP.search reports next to the label -1
MissingScore == 0 - 9

\* IndexFlatIP.search: k (score, label) pairs by descending inner product,
\* equal scores in insertion order, filled up with label -1 when the index
\* holds fewer than k vectors; S is the set of positions not yet reported
RECURSIVE IndexSearch(_, _, _, _)
IndexSearch(index, q, k, S) ==
    IF k = 0 THEN <<>>
    ELSE IF S = {} THEN << [score |-> MissingScore, idx |-> 0 - 1] >>
                        \o IndexSearch(index, q, k - 1, S)
    ELSE LET best == CHOOSE i \in S : \A j \in S :
                        \/ InnerProduct(index[i], q) > InnerProduct(index[j], q)
                        \/ /\ InnerProduct(index[i], q) = InnerProduct(index[j], q)
                           /\ i <= j
         IN << [score |-> InnerProduct(index[best], q), idx |-> best - 1] >>
            \o IndexSearch(index, q, k - 1, S \ {best})

\* list[idx] of Python: a negative idx counts from the end
PyItem(list, idx) == IF idx < 0 THEN list[Len(list) + idx + 1] ELSE list[idx + 1]

\* FAISSVectorDB.search
FaissSearch(index, meta, query_embedding, n_results) ==
    LET hits == IndexSearch(index, normalize_L2(query_embedding), n_results,
                            1..Len(index))
        read == SelectSeq(hits, LAMBDA h : h.idx < Len(meta))
    IN IF \E i \in 1..Len(read) : read[i].idx < 0 - Len(meta)
       THEN [error |-> IndexError, result |-> NoResult]
       ELSE [error |-> "",
             result |->
                [documents |-> [i \in 1..Len(read) |->
                                   Get(PyItem(meta, read[i].idx), "text", "")],
                 metadatas |-> [i \in 1..Len(read) |-> PyItem(meta, read[i].idx)],
                 distances |-> [i \in 1..Len(hits) |-> hits[i].score]]]

\* the loop of _apply_post_filter from position i (from 1) on
RECURSIVE PostFilterLoop(_, _, _, _)
PostFilterLoop(results, where_filter, i, acc) ==
    IF i > Len(results.metadatas) THEN acc
    ELSE LET metadata == results.metadatas[i]
             next ==
                IF MetadataMatches(metadata, where_filter)
                THEN [documents |-> IF i <= Len(results.documents)
                                    THEN Append(acc.documents, results.documents[i])
                                    ELSE acc.documents,
                      metadatas |-> Append(acc.metadatas, metadata),
                      distances |-> IF i <= Len(results.distances)
                                    THEN Append(acc.distances, results.distances[i])
                                    ELSE acc.distances]
                ELSE acc
         IN PostFilterLoop(results, where_filter, i + 1, next)

\* PDFVectorDBManager._apply_post_filter
apply_post_filter(results, where_filter) ==
    PostFilterLoop(results, where_filter, 1, NoResult)

\* collection.query: the records that equal the where filter on every key,
\* by ascending squared L2 distance, equal distances in insertion order, at
\* most k of them; S is the set of positions not yet reported
RECURSIVE CollectionRank(_, _, _, _)
CollectionRank(docs, q, k, S) ==
    IF k = 0 \/ S = {} THEN <<>>
    ELSE LET best == CHOOSE i \in S : \A j \in S :
                        \/ SquaredL2(docs[i].embedding, q) < SquaredL2(docs[j].embedding, q)
                        \/ /\ SquaredL2(docs[i].embedding, q) = SquaredL2(docs[j].embedding, q)
                           /\ i <= j
         IN << best >> \o CollectionRank(docs, q, k - 1, S \ {best})

\* ChromaVectorDB.search; the lists of a result are nested, one per query
ChromaSearch(docs, query_embedding, n_results, where_filter) ==
    LET S == { i \in 1..Len(docs) :
                 \A key \in DOMAIN where_filter :
                     docs[i].metadata[key] = where_filter[key] }
        hits == CollectionRank(docs, query_embedding, n_results, S)
    IN [error |-> "",
        result |->
           [documents |-> << [i \in 1..Len(hits) |-> docs[hits[i]].document] >>,
            metadatas |-> << [i \in 1..Len(hits) |-> docs[hits[i]].metadata] >>,
            distances |-> << [i \in 1..Len(hits) |->
                                SquaredL2(docs[hits[i]].embedding, query_embedding)] >>]]

\* PDFVectorDBManager.search_documents: the error it raises, the result of
\* the unfiltered search where it ran one, and what it returns
search_documents(db_type, index, meta, docs, query, n_results, args) ==
    LET query_embedding == QueryEmbedding(query)
        where_filter == WhereFilter(args)
    IN IF db_type = "chroma" /\ where_filter # <<>>
       THEN LET r == ChromaSearch(docs, query_embedding, n_results, where_filter)
            IN [error |-> r.error, unfiltered |-> NoResult, result |-> r.result]
       ELSE LET r == IF db_type = "chroma"
                     THEN ChromaSearch(docs, query_embedding, n_results, <<>>)
                     ELSE FaissSearch(index, meta, query_embedding, n_results)
            IN [error |-> r.error,
                unfiltered |-> r.result,
                result |-> IF db_type = "faiss" /\ where_filter # <<>> /\ r.error = ""
                           THEN apply_post_filter(r.result, where_filter)
                           ELSE r.result]

\* a search that takes the entry it read last out of self.metadata
MetadataAfterSearchPop(meta, result) ==
    IF meta # <<>> /\ result.metadatas # <<>>
    THEN SubSeq(meta, 1, Len(meta) - 1) ELSE meta

\* self.metadata after FAISSVectorDB.search: the search only reads it
MetadataAfterSearch(meta, result) == meta

StoreInit ==
    /\ ReqIdle
    /\ PairIdle
    /\ FnIdle
    /\ vector_db_type \in {"chroma", "faiss"}
    /\ faissIndex = <<>>
    /\ faissMeta = <<>>
    /\ diskIndex = <<>>
    /\ diskMeta = <<>>
    /\ chromaDocs = <<>>
    /\ lastOp = NoOp

\* FAISSVectorDB.add_documents(chunks, embeddings)
FaissAdd ==
    /\ vector_db_type = "faiss"
    /\ \E chunks \in ChunkLists :
       \E embeddings \in EmbeddingLists(chunks) \cup WrongDimensionLists(chunks) :
       \E w \in WriteOutcomes :
          LET r == FaissAddResult(faissIndex, faissMeta, chunks, embeddings)
          IN /\ r.error # "" => w = "ok"
             /\ Len(r.index) <= MaxStore
             /\ Len(r.meta) <= MaxStore
             /\ faissIndex' = r.index
             /\ faissMeta' = r.meta
             \* write_index and json.dump run only when nothing raised before
             /\ diskIndex' = IF r.error = "" /\ w # "write_index_raises"
                             THEN r.index ELSE diskIndex
             /\ diskMeta' = IF r.error = "" /\ w = "ok" THEN r.meta
                            ELSE IF r.error = "" /\ w = "dump_raises" THEN CorruptFile
                            ELSE diskMeta
             /\ lastOp' = [NoOp EXCEPT !.op = "add",
                                       !.error = IF r.error # "" THEN r.error
                                                 ELSE IF w # "ok" THEN OSError
                                                 ELSE "",
                                       !.nChunks = Len(chunks),
                                       !.nEmbeddings = Len(embeddings)]
    /\ UNCHANGED << reqVars, pairVars, fnVars, chromaDocs, vector_db_type >>

\* ChromaVectorDB.add_documents(chunks, embeddings)
ChromaAdd ==
    /\ vector_db_type = "chroma"
    /\ \E chunks \in ChunkLists : \E embeddings \in EmbeddingLists(chunks) :
          LET r == ChromaAddResult(chromaDocs, chunks, embeddings)
          IN /\ Len(r.docs) <= MaxStore
             /\ chromaDocs' = r.docs
             /\ lastOp' = [NoOp EXCEPT !.op = "add", !.error = r.error,
                                       !.nChunks = Len(chunks),
                                       !.nEmbeddings = Len(embeddings)]
    /\ UNCHANGED << reqVars, pairVars, fnVars, faissIndex, faissMeta, diskIndex, diskMeta,
                    vector_db_type >>

\* PDFVectorDBManager.search_documents(query, n_results, ...)
SearchDocuments ==
    /\ \E query \in Queries, n_results \in Ks, args \in FilterArgs :
          LET r == search_documents(vector_db_type, faissIndex, faissMeta,
                                    chromaDocs, query, n_results, args)
          IN /\ lastOp' = [NoOp EXCEPT !.op = "search", !.error = r.error,
                                       !.query = query, !.k = n_results,
                                       !.filter = args,
                                       !.repeat = /\ lastOp.op = "search"
                                                  /\ lastOp.query = query
                                                  /\ lastOp.k = n_results
                                                  /\ lastOp.filter = args,
                                       !.unfiltered = r.unfiltered,
                                       !.result = r.result]
             /\ faissMeta' = IF vector_db_type = "faiss"
                             THEN MetadataAfterSearch(faissMeta, r.result)
                             ELSE faissMeta
    /\ UNCHANGED << reqVars, pairVars, fnVars, faissIndex, diskIndex, diskMeta, chromaDocs,
                    vector_db_type >>

StoreNext == FaissAdd \/ ChromaAdd \/ SearchDocuments

StoreSpec == StoreInit /\ [][StoreNext]_vars

(***************************************************************************)
(* Properties                                                              *)
(***************************************************************************)
IsTerminal(e) == e.type \in {"complete", "error"}
TerminalIdx == {i \in 1..Len(events) : IsTerminal(events[i])}
EventsOfType(t) == {i \in 1..Len(events) : events[i].type = t}

\* C1: a request's event stream never holds more than one terminal event
\* (complete or error), no event follows the terminal event, and a request
\* that ran to its end holds exactly one, on the text path and on the image
\* path, whether or not generation or persistence raised.
C1_OneTerminalEvent ==
    /\ Cardinality(TerminalIdx) <= 1
    /\ \A i \in TerminalIdx : i = Len(events)
    /\ pc = "done" => Cardinality(TerminalIdx) = 1

C1_Witness ==
    /\ pc = "done"
    /\ hasImage
    /\ raisedIn = "persist"
    /\ Len(pushes) = 2
    /\ Cardinality(TerminalIdx) = 1

\* C2: when the fragment stream was exhausted without the model raising,
\* the finished request called the persistence append exactly once, with
\* the accumulated full response.
C2_AppendExactlyOnce ==
    (pc = "done" /\ modelState = "ended") =>
        /\ Len(pushes) = 1
        /\ pushes[1].message = full_response

\* C3: at most one assistant record is appended for a request; a partial
\* response and an error message are never both logged.
C3_AtMostOneRecord == Len(table) <= 1

\* C4: when retrieval or generation raised, the finished request has called
\* the persistence append, with the partial response or the error text.
C4_PersistOnException ==
    (pc = "done" /\ raisedIn \in {"retrieval", "generation"}) => Len(pushes) >= 1

\* the events whose text reports the model's exception
ModelErrorIdx ==
    {i \in 1..Len(events) : events[i].data \in {ModelError, ErrorMsg(ModelError)}}

C6_CancelStillPersists ==
    (pc = "closed" /\ cancelledAt \in {"t_text_y", "img_text_y"}) =>
        /\ Len(pushes) = 1
        /\ pushes[1].message = full_response

\* C7: a request whose client stays connected eventually emits a terminal
\* event.
C7_EventuallyTerminal == <>(cancelledAt # "none" \/ TerminalIdx # {})

C7_Witness ==
    /\ pc = "done"
    /\ cancelledAt = "none"
    /\ raisedIn = "retrieval"
    /\ events[Len(events)].type = "error"

\* the router returned a decision for the general domain, or one with no
\* domain key
RoutedGeneral ==
    /\ routing.status = "ok"
    /\ ~routing.hasDomain \/ routing.domain = "general"

\* C8: when the router returns domain = general, or no domain key, no
\* search is ever issued, no vector-store manager is constructed, the
\* retrieval states are never entered and generation gets the empty context.
C8_GeneralSkipsRetrieval ==
    RoutedGeneral =>
        /\ searches = <<>>
        /\ managerCount = 0
        /\ pc \notin {"t_search_y", "t_ctx_y"}
        /\ \A i \in 1..Len(events) : events[i].data # "Searching for context..."
        /\ context = ""
        /\ modelState # "idle" => "context" \notin chainInput

C8_Witness ==
    /\ routing.status = "ok"
    /\ ~routing.hasDomain
    /\ pc = "done"
    /\ modelState = "ended"
    /\ full_response # ""

\* a search result holding zero documents: the empty list or one empty
\* nested list
ZeroDocuments(o) ==
    /\ ~o.raised
    /\ o.docs = <<>> \/ (Len(o.docs) = 1 /\ o.docs[1].kind = "list" /\ o.docs[1].items = <<>>)

\* C9: a text request routed to a domain other than general, once its
\* manager exists and the retrieval step has run, has searched first with
\* the keywords joined by spaces (the raw prompt when there are none); it
\* has searched a second time exactly when the first search returned zero
\* documents, then with the raw prompt; it never searches more than twice
\* and n_results is 5; a second search with zero documents leaves the
\* context empty, raises nothing and lets the request complete.
C9_OneRetryWithRawPrompt ==
    /\ Len(searches) <= 2
    /\ \A i \in 1..Len(searches) : searches[i].n_results = 5
    /\ (managerCount = 1 /\ pc # "t_search_y") =>
          /\ routing.status = "ok" /\ routing.hasDomain /\ routing.domain # "general"
          /\ Len(searches) >= 1
          /\ searches[1].query =
                (IF routing.keywords = <<>> THEN prompt
                 ELSE IF Len(routing.keywords) = 1 THEN routing.keywords[1]
                 ELSE routing.keywords[1] \o " " \o routing.keywords[2])
          /\ Len(searches) = 2 <=> ZeroDocuments(searches[1].result)
          /\ Len(searches) = 2 => searches[2].query = prompt
          /\ (Len(searches) = 2 /\ ZeroDocuments(searches[2].result)) =>
                /\ context = ""
                /\ raisedIn \in {"none", "generation"}
                /\ (pc = "done" /\ raisedIn = "none") =>
                      events[Len(events)].type = "complete"
    /\ (pc = "done" /\ chromaAvailable /\ routing.status = "ok"
          /\ routing.hasDomain /\ routing.domain # "general") => managerCount = 1

C9_Witness ==
    /\ pc = "done"
    /\ Len(searches) = 2
    /\ searches[1].query = "k1 k2"
    /\ searches[1].result.docs = << ListNode(<<>>) >>
    /\ ZeroDocuments(searches[2].result)
    /\ template = "general"
    /\ events[Len(events)].type = "complete"

\* C10: when the router call raised, or its result has no domain key, the
\* finished request issued no search, built no manager, ran generation with
\* the empty context and did not end with an error event caused by routing.
C10_RouterFailureFallsBack ==
    (pc = "done" /\ (routing.status = "raised" \/ (routing.status = "ok" /\ ~routing.hasDomain))) =>
        /\ searches = <<>>
        /\ managerCount = 0
        /\ context = ""
        /\ modelState # "idle"
        /\ raisedIn # "routing"
        /\ template = "general"

\* the chunks of the text events sent so far, in order
TextData ==
    LET texts == SelectSeq(events, LAMBDA e : e.type = "text")
    IN [i \in 1..Len(texts) |-> texts[i].data]

\* the non-empty fragments the model delivered so far, in order
Fragments == SelectSeq(modelChunks, LAMBDA c : c # "")

\* C11: a request that carries an image never calls the router, never
\* constructs a vector-store manager and never searches; the vision model
\* gets the uploaded image with the prompt (or the default question for a
\* blank prompt), and each non-empty fragment it delivers is sent as one
\* text event, in order (followed at most by generate_image's own error
\* fragment).
C11_ImageBypassesRouting ==
    hasImage =>
        /\ routing.status = "none"
        /\ searches = <<>>
        /\ managerCount = 0
        /\ template = "none"
        /\ modelState # "idle" =>
              visionInput = [image |-> "IMG",
                             question |-> IF prompt = " "
                                          THEN "What do you see in this image?"
                                          ELSE prompt]
        /\ Len(TextData) \in {Len(Fragments), Len(Fragments) + 1}
        /\ SubSeq(TextData, 1, Len(Fragments)) = Fragments
        /\ Len(TextData) = Len(Fragments) + 1 =>
              /\ raisedIn # "none"
              /\ TextData[Len(TextData)] = error_msg

C11_Witness ==
    /\ hasImage
    /\ pc = "done"
    /\ prompt = " "
    /\ modelChunks = << "a", "b" >>
    /\ Len(TextData) = 3

\* C16: generate uses the grounded template, and passes the context to the
\* chain, exactly when the context string is non-empty; otherwise it uses
\* the general template and passes the question alone.
C16_TemplateByContext ==
    (~hasImage /\ modelState # "idle") =>
        /\ template = "rag" <=> context # ""
        /\ template = "general" <=> context = ""
        /\ "context" \in chainInput <=> context # ""
        /\ "question" \in chainInput

C16_Witness ==
    /\ pc = "done"
    /\ template = "rag"
    /\ context = "d1\nd2"
    /\ chainInput = {"question", "context"}

\* C17: the event stream of a request equals, at every point, the stream it
\* would have sent had every insert succeeded; no record is appended a
\* second time, the text path appends at most once and the image path's
\* second append is the error message, whatever the first one's outcome.
C17_PersistenceFailureInvisible ==
    /\ events = okEvents
    /\ ~hasImage => Len(pushes) <= 1
    /\ Len(pushes) <= 2
    /\ Len(pushes) = 2 =>
          /\ pushes[2].message = error_msg
          /\ pushes[1].message # pushes[2].message

C17_Witness ==
    /\ pc = "done"
    /\ ~hasImage
    /\ Len(pushes) = 1
    /\ pushes[1].outcome = "insert_raised"
    /\ events[Len(events)].type = "complete"

\* the number of passages in a search result
PassageCount(docs) == IF docs = <<>> THEN 0 ELSE Len(docs[1].items)

\* positions of a status message in the stream
StatusIdx(m) == {i \in 1..Len(events) : events[i].type = "status" /\ events[i].data = m}

ContextFoundIdx ==
    {i \in 1..Len(events) :
        /\ events[i].type = "status"
        /\ events[i].data \in {"Context found: 0 documents",
                               "Context found: 1 documents",
                               "Context found: 2 documents"}}

\* C18: on the text path each listed status is sent at most once; the
\* routing status precedes all others; the search status is sent only for a
\* domain other than general and is directly followed by the context status
\* with the number of passages found, and that by the generation status
\* (which directly follows the routing status for the general domain); every
\* text event comes after the generation status, one per non-empty fragment
\* in generation order; only text events and the terminal event follow the
\* generation status, and the terminal event is last.
C18_TextPathOrder ==
    ~hasImage =>
        LET R == StatusIdx("Routing query...")
            S == StatusIdx("Searching for context...")
            X == ContextFoundIdx
            G == StatusIdx("Generating response...")
            general == ~routing.hasDomain \/ routing.domain = "general"
        IN /\ \A A \in {R, S, X, G} : Cardinality(A) <= 1
           /\ (S \cup X \cup G \cup EventsOfType("text")) # {} => R # {}
           /\ \A r \in R : \A i \in S \cup X \cup G \cup EventsOfType("text") : r < i
           /\ S # {} => routing.status = "ok" /\ ~general
           /\ \A x \in X :
                /\ x - 1 \in S
                /\ searches # <<>>
                /\ events[x].data = "Context found: "
                      \o ToString(PassageCount(searches[Len(searches)].result.docs))
                      \o " documents"
           /\ \A g \in G : IF general THEN g - 1 \in R ELSE g - 1 \in X
           /\ \A t \in EventsOfType("text") : \A g \in G : g < t
           /\ EventsOfType("text") # {} => G # {}
           /\ \A g \in G : \A i \in (g + 1)..Len(events) :
                events[i].type \in {"text", "complete", "error"}
           /\ TextData = Fragments
           /\ \A i \in TerminalIdx : i = Len(events)

C18_Witness ==
    /\ ~hasImage
    /\ pc = "done"
    /\ routing.domain = "annual_report"
    /\ ContextFoundIdx # {}
    /\ events[4].data = "Context found: 2 documents"
    /\ modelChunks = << "a", "b" >>
    /\ events[Len(events)].type = "complete"

\* C20: when a request has ended with a complete event, every assistant
\* message handed to the persistence helper equals the concatenation of the
\* chunks of its text events, and the text path has handed over exactly one.
C20_PersistedEqualsStreamed ==
    (pc = "done" /\ events[Len(events)].type = "complete") =>
        /\ \A i \in 1..Len(pushes) : pushes[i].message = Join("", TextData)
        /\ ~hasImage => Len(pushes) = 1

C20_Witness ==
    /\ pc = "done"
    /\ ~hasImage
    /\ events[Len(events)].type = "complete"
    /\ Len(pushes) = 1
    /\ pushes[1].message = "ab"

\* the indices of xs that hold a list
ListIdx(xs) == { i \in 1..Len(xs) : xs[i].kind = "list" }

\* the leaves of a nested list in left-to-right depth-first order, by
\* opening the leftmost list in place until none is left
RECURSIVE LeavesInOrder(_)
LeavesInOrder(xs) ==
    IF ListIdx(xs) = {} THEN [i \in 1..Len(xs) |-> xs[i].val]
    ELSE LET i == CHOOSE j \in ListIdx(xs) : \A l \in ListIdx(xs) : j <= l
         IN LeavesInOrder(SubSeq(xs, 1, i - 1) \o xs[i].items
                          \o SubSeq(xs, i + 1, Len(xs)))

RECURSIVE OnlyStringLeaves(_)
OnlyStringLeaves(xs) ==
    \A i \in 1..Len(xs) :
        \/ xs[i].kind = "str"
        \/ xs[i].kind = "list" /\ OnlyStringLeaves(xs[i].items)

\* C15: for a nested list whose leaves are all strings, flatten_docs
\* returns the string leaves, each once, in left-to-right depth-first
\* order, and nothing else; empty nested lists add no element.
C15_FlattenDepthFirst ==
    (fnCalled = "flatten_docs" /\ OnlyStringLeaves(flatIn)) =>
        flatOut = LeavesInOrder(flatIn)

C15_Witness ==
    /\ fnCalled = "flatten_docs"
    /\ flatIn = << ListNode(<<>>), ListNode(<< StrNode("y"), StrNode("x") >>) >>
    /\ flatOut = << "y", "x" >>

IsZeroVector(v, n) == Len(v) = n /\ \A j \in 1..n : v[j] = 0

\* C19: with the hosted method generate_embeddings returns, for every list
\* of texts and every set of positions whose embedding call fails, one
\* vector per text in the order of the texts: the provider's vector where
\* the call returned and a zero vector of the provider's dimension where it
\* failed; a failure never aborts the batch.
C19_OneVectorPerText ==
    fnCalled = "generate_embeddings" =>
        /\ Len(embOut) = Len(embTexts)
        /\ \A i \in 1..Len(embTexts) :
               IF i \in embFails
               THEN IsZeroVector(embOut[i], GeminiDimension)
               ELSE embOut[i] = EmbedContent(embTexts[i])

C19_Witness ==
    /\ fnCalled = "generate_embeddings"
    /\ embTexts = << "t1", "t2", "t1" >>
    /\ embFails = {1, 3}
    /\ Len(embOut) = 3
    /\ IsZeroVector(embOut[1], GeminiDimension)
    /\ embOut[2] = EmbedContent("t2")

\* what the store holds, in memory and on disk
storeContents == << faissIndex, faissMeta, diskIndex, diskMeta, chromaDocs >>

\* C12: an add call whose chunks and embeddings differ in number fails
\* with the mismatch error, on the collection backend and on the flat-index
\* backend, and leaves the index vectors, the metadata list, the files on
\* disk and the collection as they were.
C12_MismatchLeavesStore ==
    [][ (lastOp' # lastOp /\ lastOp'.op = "add"
            /\ lastOp'.nChunks # lastOp'.nEmbeddings)
        => (lastOp'.error = MismatchError /\ storeContents' = storeContents) ]_vars

C12_Witness ==
    /\ vector_db_type = "faiss"
    /\ lastOp.op = "add"
    /\ lastOp.nChunks = 2
    /\ lastOp.nEmbeddings = 1
    /\ lastOp.error = MismatchError
    /\ Len(faissIndex) = 2
    /\ diskIndex = faissIndex

\* the filter fields that were given, each with the value asked for
GivenFields(args) ==
    { p \in { << "organization", args.organization >>,
              << "document_type", args.document_type >>,
              << "document_category", args.document_category >>,
              << "publication_year", args.year >>,
              << "language", args.language >> } : p[2] # "" }

\* the positions of a result whose metadata equals every given field,
\* letter case aside
MatchingPositions(results, args) ==
    { i \in 1..Len(results.metadatas) :
        \A p \in GivenFields(args) :
            Lower(results.metadatas[i][p[1]]) = Lower(p[2]) }

\* the j-th smallest element of a set of positions
NthOf(M, j) == CHOOSE i \in M : Cardinality({ m \in M : m <= i }) = j

\* C13: on the flat-index backend a search with a non-empty filter returns
\* the entries of the unfiltered top-k result whose metadata equals the
\* filter on every given field (compared without regard to case), in the
\* order of the unfiltered result, each with the document and the score it
\* had there; the unfiltered search is made with the same k, so fewer than
\* k entries may come back.
C13_PostFilterExact ==
    (/\ vector_db_type = "faiss"
     /\ lastOp.op = "search"
     /\ lastOp.error = ""
     /\ GivenFields(lastOp.filter) # {}) =>
        LET unf == lastOp.unfiltered
            res == lastOp.result
            M == MatchingPositions(unf, lastOp.filter)
        IN /\ Len(unf.distances) = lastOp.k
           /\ Len(unf.metadatas) <= lastOp.k
           /\ Len(res.metadatas) = Cardinality(M)
           /\ Len(res.documents) = Cardinality(M)
           /\ Len(res.distances) = Cardinality(M)
           /\ \A j \in 1..Cardinality(M) :
                 /\ res.metadatas[j] = unf.metadatas[NthOf(M, j)]
                 /\ res.documents[j] = unf.documents[NthOf(M, j)]
                 /\ res.distances[j] = unf.distances[NthOf(M, j)]

C13_Witness ==
    /\ vector_db_type = "faiss"
    /\ lastOp.op = "search"
    /\ lastOp.error = ""
    /\ lastOp.query = "q2"
    /\ lastOp.k = 2
    /\ lastOp.filter = [NoFilter EXCEPT !.organization = "FAO", !.language = "en"]
    /\ Len(faissIndex) = 2
    /\ faissMeta[1].organization = "FAO"
    /\ faissMeta[1].language = "en"
    /\ faissMeta[2].organization = "fao"
    /\ Len(lastOp.unfiltered.metadatas) = 2
    /\ lastOp.unfiltered.metadatas[1] = faissMeta[2]
    /\ lastOp.unfiltered.distances = << 1, 0 >>
    /\ lastOp.result.metadatas = << faissMeta[1] >>
    /\ lastOp.result.documents = << "a1" >>
    /\ lastOp.result.distances = << 0 >>

NoRepeats(xs) == \A i, j \in 1..Len(xs) : i # j => xs[i] # xs[j]

\* C21: on the flat-index backend a search without filter returns no more
\* results than the store holds chunks and, when the stored chunks are
\* pairwise different, no chunk twice, also when the store holds fewer
\* than k vectors and the index reports the label -1.
C21_NoDuplicateHits ==
    (/\ vector_db_type = "faiss"
     /\ lastOp.op = "search"
     /\ lastOp.error = "") =>
        /\ Len(lastOp.unfiltered.metadatas) <= Len(faissMeta)
        /\ Len(lastOp.unfiltered.documents) <= Len(faissMeta)
        /\ NoRepeats(faissMeta) => NoRepeats(lastOp.unfiltered.metadatas)

\* C22: handling a chat request never changes the vector store: whatever
\* domain the router returns, also one that names no collection, the set
\* of collections during and after the request is the set before it.
C22_ChatLeavesStore ==
    collections = InitialCollections

\* C23: however two image requests interleave at their yields and awaits,
\* also with the same filename, the vision model of each is given the
\* bytes that request uploaded, and no request ends with a file error
\* because the other wrote or removed the temporary file.
C23_OwnImageBytes ==
    \A r \in Requests :
        /\ pairVision[r] \in {"none", Upload(r)}
        /\ (pairCalls[r] > 0 \/ pairPc[r] = "complete_y") => pairVision[r] = Upload(r)
        /\ pairFail[r] = ""

C23_Witness ==
    /\ pairName[1] = pairName[2]
    /\ pairVision[1] = "IMG1"
    /\ pairVision[2] = "IMG2"
    /\ pairPc[1] = "done"
    /\ pairPc[2] = "complete_y"
    /\ pairCalls[1] > 0
    /\ tempDir[pairName[2]] = "absent"

====
